---- MODULE Spec2Model ----
(***************************************************************************)
(* A model of the bootstrap code generator (package bootstrapgen):         *)
(* Generator.Generate and the template helper functions it registers.      *)
(*                                                                         *)
(* Text is modelled at the granularity the code handles it:                *)
(*   - descriptor paths are sequences of character codes, so that          *)
(*     sort.Strings is the bytewise lexicographic order it is in Go;       *)
(*   - generated source is a sequence of tokens (strings);                 *)
(*   - an error is a record of the format literal it was built with and    *)
(*     of the values substituted into it.                                  *)
(***************************************************************************)
EXTENDS Naturals, Sequences, FiniteSets, TLC

VARIABLES
    \* ---- environment
    disk,            \* descriptor files: path -> kind of file found there
    tmplSrc,         \* tmplPkg.InterfaceTemplate, the template asset
    fs,              \* the file at g.OutFilePath: [exists, content]
    fs0,             \* the file at g.OutFilePath when Generate was entered
    \* ---- arguments
    g,               \* the Generator: [OutFilePath, ImportMapping]
    fdsFiles,        \* the argument of Generate: path -> label
    \* ---- locals of Generate
    pc,              \* position in Generate
    imprts,          \* the import accumulator captured by reportTypeUsed
    fdss,            \* the keys of fdsFiles
    idx,             \* position of the loop over fdss
    models,          \* the Models built so far
    buf,             \* the rendered buffer
    bytesWithImpts,  \* the buffer after import injection
    fmtd,            \* result of format.Source
    imptd,           \* result of imports.Process
    f,               \* the handle returned by os.Create: "none", "open", "closed"
    err,             \* the value Generate returns (meaningful when pc = "done")
    LocalPrefix,     \* the package variable imports.LocalPrefix
    \* ---- observation of the call's effects
    yielded,         \* the keys of fdsFiles in the order the map yielded them
    loadLog,         \* paths handed to getFileDescSet, in call order
    stageLog,        \* pipeline stages entered, in order
    fsOps,           \* operations performed on the output file, in order
    \* ---- caller
    calls,           \* number of Generate calls started
    history,         \* results of the completed earlier calls
    \* ---- helper functions exercised on their own
    ti,              \* a TypeInfo handed to a helper
    helperOut,       \* what the helper returned
    reported,        \* the Import values given to reportTypeUsed so far
    \* ---- Generate calls running concurrently
    gens,            \* call -> its Generator, its position and its locals
    files,           \* the output files: OutFilePath -> content
    accesses,        \* which call read or wrote which variable
    \* ---- the identity registry (security/pkg/registry)
    reg,             \* the package variable reg: 0 (nil) or a registry object
    heap,            \* the registry objects allocated: [Map, readers, writer]
    rprocs,          \* goroutine -> the call it is in, its position and locals
    lastChange,      \* object, id1 -> the last call that changed the entry
    deleted,         \* the entries removed: who removed what, expecting what
    calledOps,       \* number of registry calls started
    lastEvent,       \* service account -> the handler of its last add or delete
    \* ---- bin/codecov.sh
    cov,             \* position and shell variables of the script
    jobs,            \* background jobs: pid -> "running" or exit status
    \* ---- the build start script and the build service
    bld,             \* position and shell variables of the script
    \* ---- pilot/model: RejectConflictingEgressRules
    egress           \* position, argument and locals of the call

\* the variables of the programs other than the generator
extVars == << gens, files, accesses, reg, heap, rprocs, lastChange, deleted,
              calledOps, lastEvent, cov, jobs, bld,
                    egress >>

vars == << disk, tmplSrc, fs, fs0, g, fdsFiles, pc, imprts, fdss, idx, models,
           buf, bytesWithImpts, fmtd, imptd, f, err, LocalPrefix, yielded,
           loadLog, stageLog, fsOps, calls, history, ti, helperOut, reported,
           extVars >>

genVars == << disk, tmplSrc, fs, fs0, g, fdsFiles, pc, fdss, idx, models,
              buf, bytesWithImpts, fmtd, imptd, f, err, LocalPrefix, yielded,
              loadLog, stageLog, fsOps, calls, history >>

-----------------------------------------------------------------------------
(* Bounds *)

\* deepest nesting of map TypeInfos handed to containsValueTypeOrResMsg
MaxDepth == 2
\* longest sequence of reportTypeUsed calls in one render pass
MaxReports == 4
\* number of Generate calls the caller makes one after the other
MaxCalls == 3

-----------------------------------------------------------------------------
(* Strings and paths *)

\* bytewise lexicographic order of Go strings, on sequences of character codes
RECURSIVE StrLess(_, _)
StrLess(a, b) ==
    IF b = <<>> THEN FALSE
    ELSE IF a = <<>> THEN TRUE
    ELSE IF Head(a) < Head(b) THEN TRUE
    ELSE IF Head(a) > Head(b) THEN FALSE
    ELSE StrLess(Tail(a), Tail(b))

\* the descriptor paths of the model: "a", "ab", "b" (codes 1 = a, 2 = b)
Paths == { <<1>>, <<1, 2>>, <<2>> }

Labels == { "istio.io/tmpl" }

\* insertion of one string into a sorted sequence
RECURSIVE InsertSorted(_, _)
InsertSorted(s, x) ==
    IF s = <<>> THEN << x >>
    ELSE IF StrLess(x, Head(s)) THEN << x >> \o s
    ELSE << Head(s) >> \o InsertSorted(Tail(s), x)

RECURSIVE SortFrom(_, _)
SortFrom(acc, s) ==
    IF s = <<>> THEN acc ELSE SortFrom(InsertSorted(acc, Head(s)), Tail(s))

Unsorted(s) == s

\* sort.Strings
SortStrings(s) == SortFrom(<<>>, s)

\* the orders in which ranging over a map with key set S can yield its keys
KeyOrders(S) ==
    { o \in [1..Cardinality(S) -> S] : \A i, j \in DOMAIN o : i # j => o[i] # o[j] }

-----------------------------------------------------------------------------
(* TypeInfo and the template helper functions *)

\* a TypeInfo; MapValue is << >> (nil) or << the value's TypeInfo >>
TypeInfo(name, isValue, isRes, isMap, mapValue, import) ==
    [ Name |-> name, IsValueType |-> isValue, IsResourceMessage |-> isRes,
      IsMap |-> isMap, MapValue |-> mapValue, Import |-> import ]

containsValueTypeOrResMsg(t) ==
    t.IsValueType \/ t.IsResourceMessage
        \/ (t.IsMap /\ (t.MapValue[1].IsValueType \/ t.MapValue[1].IsResourceMessage))

goImportFmt(s) == "\"" \o s \o "\""
resourceMsgTypeSuffix == "Type"
resourceMsgInstanceSuffix == "Instance"
resourceMsgInstParamSuffix == "InstanceParam"
templateName == "Template"
placeholder == "$$additional_imports$$"

containsNever(s, e) == FALSE

contains(s, e) == \E i \in DOMAIN s : s[i] = e

\* the closure registered as "reportTypeUsed", on the accumulator it captures:
\* the accumulator after the call and the string returned
reportTypeUsed(acc, t) ==
    [ imprts |-> IF Len(t.Import) > 0
                 THEN LET imprt == goImportFmt(t.Import)
                      IN  IF ~contains(acc, imprt) THEN Append(acc, imprt) ELSE acc
                 ELSE acc,
      ret    |-> "" ]

getResourcMessageTypeName(s) ==
    IF s = templateName THEN resourceMsgTypeSuffix ELSE s \o resourceMsgTypeSuffix

\* a helper that appends the suffix to every name
InstanceNameSuffixed(s) ==
    IF s = templateName THEN resourceMsgInstanceSuffix ELSE s \o resourceMsgInstanceSuffix

getResourcMessageInstanceName(s) ==
    IF s = templateName THEN resourceMsgInstanceSuffix ELSE s

getResourcMessageInterfaceParamTypeName(s) ==
    IF s = templateName THEN resourceMsgInstParamSuffix ELSE s \o resourceMsgInstParamSuffix

getAllMsgs(model) == << model.TemplateMessage >> \o model.ResourceMessages

getBuildFnName(typeName) == "Build" \o typeName

getParentDirName(filePath) ==
    IF Len(filePath) < 2 THEN "." ELSE filePath[Len(filePath) - 1]

-----------------------------------------------------------------------------
(* Descriptor files and the Model Builder (package modelgen) *)

\* what ioutil.ReadFile, proto.Unmarshal, CreateFileDescriptorSetParser and
\* modelgen.Create make of the file at a path
FileKinds == { "unreadable", "malformed", "badset", "badmodel", "ok" }

\* the nil *descriptor.FileDescriptorSet
NilFds == [ nil |-> TRUE, path |-> << >> ]

\* the descriptor set deserialized from the file at a path
FdsAt(path) == [ nil |-> FALSE, path |-> path ]

\* fmt's %s of a *descriptor.FileDescriptorSet: its String() method, the text
\* form of the message (code 0 stands for text that is no part of a path)
FdsString(fds) == IF fds.nil THEN << 0 >> ELSE << 0, 0 >>

\* a field of a message of a descriptor set: the kind of its type and the
\* schema package the type comes from
Field(name, kind, pkg) == [ name |-> name, kind |-> kind, pkg |-> pkg ]

\* the messages of the descriptor set stored at each path
Schema(path) ==
    IF path = << 1 >> THEN
        [ tmpl |-> [ Name |-> "Template",
                     Fields |-> << Field("string", "value", ""),
                                   Field("*Res1", "res", "pkgx") >> ],
          res  |-> << [ Name |-> "Res1",
                        Fields |-> << Field("map[string]string", "mapvalue", "pkgy") >> ] >> ]
    ELSE IF path = << 1, 2 >> THEN
        [ tmpl |-> [ Name |-> "Metric",
                     Fields |-> << Field("*Res2", "res", "pkgx"),
                                   Field("int", "plain", "pkgz") >> ],
          res  |-> << >> ]
    ELSE
        [ tmpl |-> [ Name |-> "Quota",
                     Fields |-> << Field("time.Duration", "value", "pkgy"),
                                   Field("map[string]int", "mapplain", "pkgz") >> ],
          res  |-> << >> ]

\* the values g.ImportMapping takes: schema package -> import path
ImportMappings ==
    { [ pkgx |-> "istio.io/api/x", pkgy |-> "github.com/y", pkgz |-> "" ],
      [ pkgx |-> "github.com/y", pkgy |-> "github.com/y", pkgz |-> "github.com/z" ] }

\* the TypeInfo the Model Builder gives a field
FieldType(fld, importMapping) ==
    LET imp  == IF fld.pkg = "" THEN "" ELSE importMapping[fld.pkg]
        elem == TypeInfo("elem", fld.kind = "mapvalue", FALSE, FALSE, << >>, "")
    IN  TypeInfo(fld.name, fld.kind = "value", fld.kind = "res",
                 fld.kind \in { "mapvalue", "mapplain" },
                 IF fld.kind \in { "mapvalue", "mapplain" } THEN << elem >> ELSE << >>,
                 imp)

MessageInfo(msg, importMapping) ==
    [ Name   |-> msg.Name,
      Fields |-> [ i \in DOMAIN msg.Fields |-> FieldType(msg.Fields[i], importMapping) ] ]

\* modelgen.Create(modelgen.CreateFileDescriptorSetParser(fds, importMapping, label))
CreateModel(fds, importMapping, label) ==
    LET sch == Schema(fds.path)
    IN  [ TemplateMessage  |-> MessageInfo(sch.tmpl, importMapping),
          ResourceMessages |-> [ i \in DOMAIN sch.res |->
                                   MessageInfo(sch.res[i], importMapping) ] ]

-----------------------------------------------------------------------------
(* Errors *)

\* an error value: the format literal it was built with (kind), the text
\* substituted for the literal's %s (arg), the underlying error's text (cause),
\* the path the underlying error names, if it names one (causePath), and the
\* source text appended to the message (source)
Error(kind, arg, cause, causePath, source) ==
    [ kind |-> kind, arg |-> arg, cause |-> cause, causePath |-> causePath,
      source |-> source ]

NilErr == Error("nil", << >>, "", << >>, << >>)

\* an error of a collaborator, returned as it is
Plain(cause) == Error("", << >>, cause, << >>, << >>)

\* the *os.PathError of ioutil.ReadFile: "open <path>: <reason>"
PathError(path) == Error("", << >>, "open: no such file or directory", path, << >>)

\* fmt.Errorf("cannot parse file '%s' as a FileDescriptorSetProto. %v", fds, err)
ParseErrorf(fds, e) ==
    Error("cannot parse file '%s' as a FileDescriptorSetProto. %v",
          FdsString(fds), e.cause, e.causePath, << >>)

getFileDescSetUnchecked(path) == [ fds |-> FdsAt(path), err |-> NilErr ]

\* getFileDescSet: the descriptor set and the error
getFileDescSet(path) ==
    IF disk[path] = "unreadable" THEN [ fds |-> NilFds, err |-> PathError(path) ]
    ELSE IF disk[path] = "malformed"
         THEN [ fds |-> NilFds, err |-> Plain("proto: cannot parse") ]
    ELSE [ fds |-> FdsAt(path), err |-> NilErr ]

\* the error of modelgen.CreateFileDescriptorSetParser
CreateFileDescriptorSetParserErr(fds) ==
    IF disk[fds.path] = "badset" THEN Plain("parser: unresolved import") ELSE NilErr

\* the error of modelgen.Create
CreateErr(fds) ==
    IF disk[fds.path] = "badmodel" THEN Plain("model: no template message") ELSE NilErr

-----------------------------------------------------------------------------
(* The template asset and its execution *)

\* the template assets of the model: whether Parse accepts the text, whether
\* Execute runs to its end, how many placeholder tokens the text holds and
\* whether what it prints is Go source
Template(parseOk, execOk, placeholders, syntaxOk) ==
    [ parseOk |-> parseOk, execOk |-> execOk, placeholders |-> placeholders,
      syntaxOk |-> syntaxOk ]

Templates ==
    { Template(TRUE, TRUE, 1, TRUE),  Template(FALSE, TRUE, 1, TRUE),
      Template(TRUE, FALSE, 1, TRUE), Template(TRUE, TRUE, 1, FALSE),
      Template(TRUE, TRUE, 2, TRUE),  Template(TRUE, TRUE, 0, TRUE) }

Repeat(tok, n) == [ i \in 1..n |-> tok ]

\* one message: its type name, then each field that holds a value type or a
\* resource message, reported as used; acc is [out, imprts]
RECURSIVE RenderFields(_, _, _)
RenderFields(acc, fields, i) ==
    IF i > Len(fields) THEN acc
    ELSE IF containsValueTypeOrResMsg(fields[i])
         THEN LET r == reportTypeUsed(acc.imprts, fields[i])
              IN  RenderFields([ out    |-> acc.out \o << fields[i].Name, r.ret >>,
                                 imprts |-> r.imprts ], fields, i + 1)
         ELSE RenderFields(acc, fields, i + 1)

RECURSIVE RenderMsgs(_, _, _)
RenderMsgs(acc, msgs, i) ==
    IF i > Len(msgs) THEN acc
    ELSE RenderMsgs(
             RenderFields([ out    |-> acc.out \o << "type",
                                         getResourcMessageTypeName(msgs[i].Name) >>,
                            imprts |-> acc.imprts ], msgs[i].Fields, 1),
             msgs, i + 1)

RECURSIVE RenderModels(_, _, _)
RenderModels(acc, ms, i) ==
    IF i > Len(ms) THEN acc
    ELSE RenderModels(RenderMsgs(acc, getAllMsgs(ms[i]), 1), ms, i + 1)

\* tmpl.Execute(buf, bootstrapModel{pkgName, models}): whether it succeeded,
\* the buffer written and the accumulator left by the helper calls
Execute(tmpl, pkgName, ms, acc0) ==
    LET header == << "package", pkgName, "import", "(" >>
                      \o Repeat(placeholder, tmpl.placeholders) \o << ")" >>
        body   == RenderModels([ out |-> header, imprts |-> acc0 ], ms, 1)
    IN  IF ~tmpl.execOk
        THEN [ ok |-> FALSE, buf |-> header, imprts |-> acc0 ]
        ELSE [ ok     |-> TRUE,
               buf    |-> IF tmpl.syntaxOk THEN body.out ELSE body.out \o << "}{" >>,
               imprts |-> body.imprts ]

-----------------------------------------------------------------------------
(* Import injection and output normalization *)

\* strings.Join(a, sep), as tokens
RECURSIVE Join(_, _)
Join(a, sep) ==
    IF Len(a) = 0 THEN << >>
    ELSE IF Len(a) = 1 THEN << a[1] >>
    ELSE << a[1], sep >> \o Join(Tail(a), sep)

\* index of the first occurrence of a token, 0 when there is none
FirstIndex(b, tok) ==
    IF \E i \in DOMAIN b : b[i] = tok
    THEN CHOOSE i \in DOMAIN b : b[i] = tok /\ \A j \in 1..(i - 1) : b[j] # tok
    ELSE 0

\* a replacement of every occurrence, whatever n is
RECURSIVE ReplaceAll(_, _, _, _)
ReplaceAll(b, old, new, n) ==
    LET i == FirstIndex(b, old)
    IN  IF i = 0 THEN b
        ELSE SubSeq(b, 1, i - 1) \o new \o ReplaceAll(SubSeq(b, i + 1, Len(b)), old, new, n)

\* bytes.Replace(b, old, new, n), replacing the first n occurrences of old
RECURSIVE Replace(_, _, _, _)
Replace(b, old, new, n) ==
    LET i == FirstIndex(b, old)
    IN  IF n = 0 \/ i = 0 THEN b
        ELSE SubSeq(b, 1, i - 1) \o new
                 \o Replace(SubSeq(b, i + 1, Len(b)), old, new, n - 1)

\* the tokens go/format rejects: the placeholder ('$' is no Go character) and
\* the unbalanced braces of a broken template
IsGoSource(src) == \A i \in DOMAIN src : src[i] \notin { placeholder, "}{" }

FormatUnchecked(src) == [ ok |-> TRUE, out |-> SelectSeq(src, LAMBDA t : t # "") ]

\* format.Source: whether it succeeded and the formatted text (blank tokens
\* are dropped)
FormatSource(src) ==
    IF IsGoSource(src)
    THEN [ ok |-> TRUE, out |-> SelectSeq(src, LAMBDA t : t # "") ]
    ELSE [ ok |-> FALSE, out |-> << >> ]

\* the import paths that start with the prefix "istio.io"
IstioImports == { goImportFmt("istio.io/api/x") }

\* imports.Process in format-only mode: the import specs between the first
\* "(" and ")" are regrouped, those with the local prefix last
ImportsProcess(src, localPrefix) ==
    LET open  == FirstIndex(src, "(")
        close == FirstIndex(src, ")")
        specs == SelectSeq(SubSeq(src, open + 1, close - 1), LAMBDA t : t # "\n")
        local(t) == localPrefix = "istio.io" /\ t \in IstioImports
        group == SelectSeq(specs, LAMBDA t : ~local(t)) \o SelectSeq(specs, local)
    IN  SubSeq(src, 1, open) \o Join(group, "\n") \o SubSeq(src, close, Len(src))

-----------------------------------------------------------------------------
(* Generate, statement by statement *)

OutFilePaths == { << "template", "template.gen.go" >> }

NoFile == [ exists |-> FALSE, content |-> << >> ]

\* the argument values of Generate: every mapping of a set of paths to labels
FdsFileMaps == UNION { [ S -> Labels ] : S \in SUBSET Paths }

\* return e
Return(e) == pc' = "done" /\ err' = e

KeepImprts(old) == old

\* imprts := make([]string, 0)
MakeImprts(old) == << >>

\* entry, and template.New(...).Funcs(...).Parse(tmplPkg.InterfaceTemplate)
Enter ==
    /\ pc = "start"
    /\ imprts' = MakeImprts(imprts)
    /\ IF tmplSrc.parseOk
       THEN pc' = "collect" /\ err' = err
       ELSE Return(Error("cannot load template: %v", << >>,
                         "template: unexpected token", << >>, << >>))
    /\ UNCHANGED << disk, tmplSrc, fs, fs0, g, fdsFiles, fdss, idx, models, buf,
                    bytesWithImpts, fmtd, imptd, f, LocalPrefix, yielded, loadLog,
                    stageLog, fsOps, calls, history, ti, helperOut, reported, extVars >>

\* models := make(...); for k := range fdsFiles { fdss = append(fdss, k) }
RangeKeys ==
    /\ pc = "collect"
    /\ \E o \in KeyOrders(DOMAIN fdsFiles) :
          /\ fdss' = o
          /\ yielded' = o
    /\ models' = << >>
    /\ pc' = "sort"
    /\ UNCHANGED << disk, tmplSrc, fs, fs0, g, fdsFiles, imprts, idx, buf,
                    bytesWithImpts, fmtd, imptd, f, err, LocalPrefix, loadLog,
                    stageLog, fsOps, calls, history, ti, helperOut, reported, extVars >>

\* sort.Strings(fdss)
Sort ==
    /\ pc = "sort"
    /\ fdss' = SortStrings(fdss)
    /\ idx' = 1
    /\ pc' = IF Len(fdss) = 0 THEN "render" ELSE "loop"
    /\ UNCHANGED << disk, tmplSrc, fs, fs0, g, fdsFiles, imprts, models, buf,
                    bytesWithImpts, fmtd, imptd, f, err, LocalPrefix, yielded,
                    loadLog, stageLog, fsOps, calls, history, ti, helperOut,
                    reported, extVars >>

\* one iteration of: for _, fdsPath := range fdss { ... }
LoadNext ==
    /\ pc = "loop"
    /\ idx <= Len(fdss)
    /\ LET fdsPath == fdss[idx]
           r       == getFileDescSet(fdsPath)
       IN  /\ loadLog' = Append(loadLog, fdsPath)
           /\ IF r.err # NilErr
              THEN Return(ParseErrorf(r.fds, r.err)) /\ UNCHANGED << models, idx >>
              ELSE IF CreateFileDescriptorSetParserErr(r.fds) # NilErr
              THEN /\ Return(ParseErrorf(r.fds, CreateFileDescriptorSetParserErr(r.fds)))
                   /\ UNCHANGED << models, idx >>
              ELSE IF CreateErr(r.fds) # NilErr
              THEN Return(CreateErr(r.fds)) /\ UNCHANGED << models, idx >>
              ELSE /\ models' = Append(models,
                                    CreateModel(r.fds, g.ImportMapping, fdsFiles[fdsPath]))
                   /\ idx' = idx + 1
                   /\ pc' = IF idx + 1 > Len(fdss) THEN "render" ELSE "loop"
                   /\ err' = err
    /\ UNCHANGED << disk, tmplSrc, fs, fs0, g, fdsFiles, imprts, fdss, buf,
                    bytesWithImpts, fmtd, imptd, f, LocalPrefix, yielded, stageLog,
                    fsOps, calls, history, ti, helperOut, reported, extVars >>

\* pkgName := getParentDirName(g.OutFilePath); err = tmpl.Execute(buf, ...)
Render ==
    /\ pc = "render"
    /\ stageLog' = Append(stageLog, "render")
    /\ LET r == Execute(tmplSrc, getParentDirName(g.OutFilePath), models, imprts)
       IN  /\ buf' = r.buf
           /\ imprts' = r.imprts
           /\ IF r.ok
              THEN pc' = "inject" /\ err' = err
              ELSE Return(Error("cannot execute the template with the given data: %v",
                                << >>, "template: nil pointer evaluating", << >>, << >>))
    /\ UNCHANGED << disk, tmplSrc, fs, fs0, g, fdsFiles, fdss, idx, models,
                    bytesWithImpts, fmtd, imptd, f, LocalPrefix, yielded, loadLog,
                    fsOps, calls, history, ti, helperOut, reported, extVars >>

\* bytesWithImpts := bytes.Replace(buf.Bytes(), "$$additional_imports$$", Join(imprts, "\n"), 1)
Inject ==
    /\ pc = "inject"
    /\ stageLog' = Append(stageLog, "inject")
    /\ bytesWithImpts' = Replace(buf, placeholder, Join(imprts, "\n"), 1)
    /\ pc' = "format"
    /\ UNCHANGED << disk, tmplSrc, fs, fs0, g, fdsFiles, imprts, fdss, idx, models,
                    buf, fmtd, imptd, f, err, LocalPrefix, yielded, loadLog, fsOps,
                    calls, history, ti, helperOut, reported, extVars >>

\* fmtd, err := format.Source(bytesWithImpts)
Format ==
    /\ pc = "format"
    /\ stageLog' = Append(stageLog, "format")
    /\ LET r == FormatSource(bytesWithImpts)
       IN  IF r.ok
           THEN fmtd' = r.out /\ pc' = "imports" /\ err' = err
           ELSE /\ Return(Error("could not format generated code: %v. Source code is %s",
                                << >>, "syntax error", << >>, buf))
                /\ fmtd' = fmtd
    /\ UNCHANGED << disk, tmplSrc, fs, fs0, g, fdsFiles, imprts, fdss, idx, models,
                    buf, bytesWithImpts, imptd, f, LocalPrefix, yielded, loadLog,
                    fsOps, calls, history, ti, helperOut, reported, extVars >>

\* imports.LocalPrefix = "istio.io"; imptd, err := imports.Process(...)
FixImports ==
    /\ pc = "imports"
    /\ stageLog' = Append(stageLog, "imports")
    /\ LocalPrefix' = "istio.io"
    /\ \E ok \in BOOLEAN :
          IF ok
          THEN imptd' = ImportsProcess(fmtd, LocalPrefix') /\ pc' = "create" /\ err' = err
          ELSE /\ Return(Error("could not fix imports for generated code: %v",
                               << >>, "imports: cannot parse", << >>, << >>))
               /\ imptd' = imptd
    /\ UNCHANGED << disk, tmplSrc, fs, fs0, g, fdsFiles, imprts, fdss, idx, models,
                    buf, bytesWithImpts, fmtd, f, yielded, loadLog, fsOps, calls,
                    history, ti, helperOut, reported, extVars >>

\* f, err := os.Create(g.OutFilePath); defer f.Close()
Create ==
    /\ pc = "create"
    /\ stageLog' = Append(stageLog, "create")
    /\ \E ok \in BOOLEAN :
          IF ok
          THEN /\ fs' = [ exists |-> TRUE, content |-> << >> ]
               /\ f' = "open"
               /\ fsOps' = Append(fsOps, "create")
               /\ pc' = "write"
               /\ err' = err
          ELSE /\ Return(Plain("open: permission denied"))
               /\ UNCHANGED << fs, f, fsOps >>
    /\ UNCHANGED << disk, tmplSrc, fs0, g, fdsFiles, imprts, fdss, idx, models, buf,
                    bytesWithImpts, fmtd, imptd, LocalPrefix, yielded, loadLog,
                    calls, history, ti, helperOut, reported, extVars >>

\* how many tokens a failing f.Write has written
PartialWrites(b) == { 0, Len(b) \div 2 }

WriteFailedNoRemove(b, k, removed) ==
    [ fs  |-> [ exists |-> TRUE, content |-> SubSeq(b, 1, k) ],
      ops |-> << "write", "close", "close" >> ]

\* the failure branch of f.Write: f.Close(), os.Remove(f.Name()), whose error
\* is dropped, and the deferred f.Close(); the file left and the operations made
WriteFailed(b, k, removed) ==
    [ fs  |-> IF removed THEN NoFile
              ELSE [ exists |-> TRUE, content |-> SubSeq(b, 1, k) ],
      ops |-> << "write", "close", IF removed THEN "remove" ELSE "remove failed",
                 "close" >> ]

WriteShort(b) ==
    [ fs  |-> [ exists |-> TRUE, content |-> SubSeq(b, 1, Len(b) \div 2) ],
      ops |-> << "write", "close" >> ]

\* f.Write returning a nil error, and the deferred f.Close()
WriteDone(b) ==
    [ fs  |-> [ exists |-> TRUE, content |-> b ],
      ops |-> << "write", "close" >> ]

\* if _, err = f.Write(imptd); err != nil { ... }; return nil
Write ==
    /\ pc = "write"
    /\ stageLog' = Append(stageLog, "write")
    /\ f' = "closed"
    /\ \/ /\ fs' = WriteDone(imptd).fs
          /\ fsOps' = fsOps \o WriteDone(imptd).ops
          /\ Return(NilErr)
       \/ \E k \in PartialWrites(imptd), removed \in BOOLEAN :
             /\ fs' = WriteFailed(imptd, k, removed).fs
             /\ fsOps' = fsOps \o WriteFailed(imptd, k, removed).ops
             /\ Return(Plain("write: no space left on device"))
    /\ UNCHANGED << disk, tmplSrc, fs0, g, fdsFiles, imprts, fdss, idx, models, buf,
                    bytesWithImpts, fmtd, imptd, LocalPrefix, yielded, loadLog,
                    calls, history, ti, helperOut, reported, extVars >>

NoType == TypeInfo("", FALSE, FALSE, FALSE, << >>, "")

\* the programs other than prog have not started: no Generate call runs
\* concurrently, reg is nil, the scripts are not running, no helper was called
IdleExcept(prog) ==
    /\ IF prog = "helpers" THEN TRUE
       ELSE ti = NoType /\ helperOut = << >> /\ reported = << >> /\ imprts = << >>
    /\ IF prog = "concurrent calls" THEN TRUE
       ELSE gens = << >> /\ files = << >> /\ accesses = { }
    /\ IF prog = "registry" THEN TRUE
       ELSE /\ reg = 0
            /\ heap = << >>
            /\ rprocs = << >>
            /\ lastChange = << >>
            /\ deleted = { }
            /\ calledOps = 0
            /\ lastEvent = << >>
    /\ IF prog = "codecov.sh" THEN TRUE ELSE cov = [ pc |-> "idle" ] /\ jobs = << >>
    /\ IF prog = "build" THEN TRUE ELSE bld = [ pc |-> "idle" ]
    /\ IF prog = "egress rules" THEN TRUE ELSE egress = [ pc |-> "idle" ]

\* the state in which a caller enters Generate
InitGen ==
    /\ disk \in [ Paths -> FileKinds ]
    /\ tmplSrc \in Templates
    /\ fs \in { NoFile, [ exists |-> TRUE, content |-> << "old" >> ] }
    /\ fs0 = fs
    /\ g \in { [ OutFilePath |-> o, ImportMapping |-> m ] :
                 o \in OutFilePaths, m \in ImportMappings }
    /\ fdsFiles \in FdsFileMaps
    /\ pc = "start"
    /\ imprts = << >>
    /\ fdss = << >>
    /\ idx = 0
    /\ models = << >>
    /\ buf = << >>
    /\ bytesWithImpts = << >>
    /\ fmtd = << >>
    /\ imptd = << >>
    /\ f = "none"
    /\ err = NilErr
    /\ LocalPrefix = ""
    /\ yielded = << >>
    /\ loadLog = << >>
    /\ stageLog = << >>
    /\ fsOps = << >>
    /\ calls = 1
    /\ history = { }
    /\ ti = NoType
    /\ helperOut = << >>
    /\ reported = << >>
    /\ IdleExcept("helpers")

Init == InitGen

Next ==
    \/ Enter
    \/ RangeKeys
    \/ Sort
    \/ LoadNext
    \/ Render
    \/ Inject
    \/ Format
    \/ FixImports
    \/ Create
    \/ Write

Spec == Init /\ [][Next]_vars

-----------------------------------------------------------------------------
(* A caller that calls Generate again on the same Generator *)

\* the caller notes what a successful call was given, whether the map yielded
\* its keys in sorted order and what the call wrote, and enters Generate anew;
\* the locals of the new call are fresh, package variables and the file system
\* stay
CallAgain ==
    /\ pc = "done"
    /\ calls < MaxCalls
    /\ calls' = calls + 1
    /\ history' = IF err # NilErr THEN history
                   ELSE history \cup { [ fdsFiles |-> fdsFiles,
                                         ImportMapping |-> g.ImportMapping,
                                         inOrder |-> (yielded = fdss),
                                         out |-> fs.content ] }
    /\ fdsFiles' \in FdsFileMaps
    /\ fs0' = fs
    /\ pc' = "start"
    /\ fdss' = << >>
    /\ idx' = 0
    /\ models' = << >>
    /\ buf' = << >>
    /\ bytesWithImpts' = << >>
    /\ fmtd' = << >>
    /\ imptd' = << >>
    /\ f' = "none"
    /\ err' = NilErr
    /\ yielded' = << >>
    /\ loadLog' = << >>
    /\ stageLog' = << >>
    /\ fsOps' = << >>
    /\ UNCHANGED << disk, tmplSrc, fs, g, imprts, LocalPrefix, ti, helperOut, reported,
                    extVars >>

\* descriptor files that all load, and a template that renders Go source
InitDet ==
    /\ InitGen
    /\ disk \in [ Paths -> { "ok" } ]
    /\ tmplSrc = Template(TRUE, TRUE, 1, TRUE)
    /\ fs = NoFile

NextDet == Next \/ CallAgain

SpecDet == InitDet /\ [][NextDet]_vars

-----------------------------------------------------------------------------
(* The helper functions on their own *)

\* the TypeInfo values whose maps nest to depth d at most
RECURSIVE TypeInfos(_)
TypeInfos(d) ==
    LET flat == { TypeInfo("T", v, r, FALSE, << >>, "") : v \in BOOLEAN, r \in BOOLEAN }
    IN  IF d = 0 THEN flat
        ELSE flat \cup { TypeInfo("T", v, r, TRUE, << e >>, "") :
                           v \in BOOLEAN, r \in BOOLEAN, e \in TypeInfos(d - 1) }

Idle ==
    /\ disk = [ p \in Paths |-> "ok" ]
    /\ tmplSrc = Template(TRUE, TRUE, 1, TRUE)
    /\ fs = NoFile
    /\ fs0 = NoFile
    /\ g = [ OutFilePath |-> << "template", "template.gen.go" >>,
             ImportMapping |-> [ pkgx |-> "", pkgy |-> "", pkgz |-> "" ] ]
    /\ fdsFiles = << >>
    /\ pc = "idle"
    /\ fdss = << >>
    /\ idx = 0
    /\ models = << >>
    /\ buf = << >>
    /\ bytesWithImpts = << >>
    /\ fmtd = << >>
    /\ imptd = << >>
    /\ f = "none"
    /\ err = NilErr
    /\ LocalPrefix = ""
    /\ yielded = << >>
    /\ loadLog = << >>
    /\ stageLog = << >>
    /\ fsOps = << >>
    /\ calls = 0
    /\ history = { }

InitPred ==
    /\ Idle
    /\ IdleExcept("helpers")
    /\ imprts = << >>
    /\ reported = << >>
    /\ ti \in TypeInfos(MaxDepth)
    /\ helperOut = << >>

\* the template calls containsValueTypeOrResMsg on a TypeInfo
CallContains ==
    /\ helperOut = << >>
    /\ helperOut' = << containsValueTypeOrResMsg(ti) >>
    /\ UNCHANGED << genVars, imprts, ti, reported, extVars >>

NextPred == CallContains

SpecPred == InitPred /\ [][NextPred]_vars

\* the Import values of the TypeInfos the template reports
ImportValues == { "", "istio.io/api/x", "github.com/y", "github.com/z" }

InitReport ==
    /\ Idle
    /\ IdleExcept("helpers")
    /\ imprts = << >>
    /\ reported = << >>
    /\ ti = NoType
    /\ helperOut = << >>

\* the template calls reportTypeUsed on a TypeInfo, within one render pass
CallReport ==
    /\ Len(reported) < MaxReports
    /\ \E imp \in ImportValues, v \in BOOLEAN :
          /\ ti' = TypeInfo("T", v, ~v, FALSE, << >>, imp)
          /\ imprts' = reportTypeUsed(imprts, ti').imprts
          /\ helperOut' = << reportTypeUsed(imprts, ti').ret >>
          /\ reported' = Append(reported, imp)
    /\ UNCHANGED << genVars, extVars >>

NextReport == CallReport

SpecReport == InitReport /\ [][NextReport]_vars

-----------------------------------------------------------------------------
(* Properties of Generate *)

\* the descriptor paths of the call for which loading or model building fails
FailingPaths == { p \in DOMAIN fdsFiles : disk[p] # "ok" }

\* the failing path that sorts first
LeastFailing ==
    CHOOSE p \in FailingPaths : \A q \in FailingPaths : q = p \/ StrLess(p, q)

\* the error each collaborator reports for a file it cannot handle
CollaboratorError ==
    [ unreadable |-> "open: no such file or directory",
      malformed  |-> "proto: cannot parse",
      badset     |-> "parser: unresolved import",
      badmodel   |-> "model: no template message" ]

\* C1 (fail-fast): in a call with two or more descriptor paths of which one
\* fails to load or to build, no descriptor that sorts after the first failing
\* one is processed, the output file is never created, truncated or written (it
\* keeps the content it had), and the call returns the error of that descriptor.
C1_FailFast ==
    (Cardinality(DOMAIN fdsFiles) >= 2 /\ FailingPaths # { }) =>
        /\ fs = fs0
        /\ fsOps = << >>
        /\ f = "none"
        /\ \A i \in DOMAIN loadLog : ~StrLess(LeastFailing, loadLog[i])
        /\ pc \notin { "render", "inject", "format", "imports", "create", "write" }
        /\ (pc = "done" /\ tmplSrc.parseOk) =>
               /\ err # NilErr
               /\ err.cause = CollaboratorError[disk[LeastFailing]]
               /\ loadLog[Len(loadLog)] = LeastFailing

C1_Witness ==
    /\ pc = "done"
    /\ Cardinality(DOMAIN fdsFiles) >= 2
    /\ FailingPaths # { }
    /\ Len(loadLog) >= 2
    /\ \E p \in DOMAIN fdsFiles : StrLess(LeastFailing, p)
    /\ fs0.exists
    /\ fs = fs0

\* position of a path among the keys of fdsFiles in ascending order
Rank(p) == Cardinality({ q \in DOMAIN fdsFiles : StrLess(q, p) }) + 1

\* C2 (ordering): whatever order the map yields its keys in, the descriptors
\* are loaded in ascending lexicographic order of path, and the i-th Model
\* given to the renderer is the one built from the i-th smallest path.
C2_Ordering ==
    /\ \A i \in DOMAIN loadLog : Rank(loadLog[i]) = i
    /\ \A i \in DOMAIN models :
          \E p \in DOMAIN fdsFiles :
             /\ Rank(p) = i
             /\ models[i] = CreateModel(FdsAt(p), g.ImportMapping, fdsFiles[p])
    /\ stageLog # << >> => Len(models) = Cardinality(DOMAIN fdsFiles)

C2_Witness ==
    /\ stageLog # << >>
    /\ Len(models) = 3
    /\ yielded = << << 2 >>, << 1, 2 >>, << 1 >> >>
    /\ loadLog = << << 1 >>, << 1, 2 >>, << 2 >> >>

WriteErrorReturned == pc = "done" /\ err.cause = "write: no space left on device"

\* C5 as stated (file writer exit paths): once the output file has been
\* created the handle is closed when Generate returns, and after a failed write
\* no output file exists at OutFilePath.
C5_NoFileAfterFailedWrite ==
    pc = "done" =>
        /\ f # "open"
        /\ WriteErrorReturned => ~fs.exists

\* C5 as amended: once the output file has been created the handle is closed
\* when Generate returns; when the write fails, Generate closes the handle and
\* then attempts to delete the file before it returns the write error, and no
\* output file exists at OutFilePath if that deletion succeeded.
C5_CleanupAttempted ==
    pc = "done" =>
        /\ f # "open"
        /\ fsOps # << >> => (f = "closed" /\ fsOps[Len(fsOps)] = "close")
        /\ WriteErrorReturned =>
              /\ Len(fsOps) = 5
              /\ SubSeq(fsOps, 1, 3) = << "create", "write", "close" >>
              /\ fsOps[4] \in { "remove", "remove failed" }
              /\ fsOps[4] = "remove" => ~fs.exists

C5_Witness ==
    /\ WriteErrorReturned
    /\ fsOps[4] = "remove"
    /\ ~fs.exists
    /\ fs0.exists

StageOrder == << "render", "inject", "format", "imports", "create", "write" >>

ExecuteFailed == "cannot execute the template with the given data: %v"
FormatFailed == "could not format generated code: %v. Source code is %s"
ImportFixFailed == "could not fix imports for generated code: %v"

\* C6 (stage gating): the stages run in the order render, import injection,
\* formatting, import fixing, file write; the output file is created only
\* after rendering, formatting and import fixing have succeeded; when one of
\* them fails Generate returns its error and the output file is not touched.
C6_StageGating ==
    /\ Len(stageLog) <= Len(StageOrder)
    /\ stageLog = SubSeq(StageOrder, 1, Len(stageLog))
    /\ ("create" \in { stageLog[i] : i \in DOMAIN stageLog } \/ fsOps # << >>) =>
          /\ tmplSrc.execOk
          /\ IsGoSource(bytesWithImpts)
          /\ SubSeq(stageLog, 1, 4) = SubSeq(StageOrder, 1, 4)
          /\ err.kind \notin { ExecuteFailed, FormatFailed, ImportFixFailed }
    /\ (pc = "done" /\ (~tmplSrc.execOk \/ ~IsGoSource(bytesWithImpts))
           /\ stageLog # << >>) =>
          err.kind \in { ExecuteFailed, FormatFailed }
    /\ (pc = "done" /\ err.kind \in { ExecuteFailed, FormatFailed, ImportFixFailed }) =>
          /\ fs = fs0
          /\ fsOps = << >>
          /\ f = "none"

C6_Witness ==
    /\ pc = "done"
    /\ err.kind = FormatFailed
    /\ stageLog = << "render", "inject", "format" >>
    /\ fs0.exists
    /\ fs = fs0

\* C7 (nil result): Generate returns nil only if the template loaded, every
\* descriptor loaded and built, rendering, formatting and import fixing
\* succeeded, the file was created and the write succeeded, and then the
\* output file holds exactly the normalized bytes.
C7_NilOnlyOnSuccess ==
    (pc = "done" /\ err = NilErr) =>
        /\ tmplSrc.parseOk
        /\ FailingPaths = { }
        /\ Len(models) = Cardinality(DOMAIN fdsFiles)
        /\ tmplSrc.execOk
        /\ IsGoSource(bytesWithImpts)
        /\ stageLog = StageOrder
        /\ fsOps = << "create", "write", "close" >>
        /\ fs.exists
        /\ fs.content = imptd
        /\ imptd # << >>

C7_Witness ==
    /\ pc = "done"
    /\ err = NilErr
    /\ Len(models) = 2
    /\ fs.content = imptd
    /\ fs0.exists

\* C8 (format failure surfaces source): when the formatting pass fails, the
\* source attached to the returned error is the text that was handed to the
\* formatting pass, the rendered text with the import list injected.
C8_FormatErrorSource ==
    (pc = "done" /\ err.kind = FormatFailed) => err.source = bytesWithImpts

ParseFailed == "cannot parse file '%s' as a FileDescriptorSetProto. %v"

\* C9 (error context): when reading or deserializing a descriptor file fails,
\* or creating the parser for it, the returned error carries the path of that
\* file.
C9_ErrorCarriesPath ==
    (pc = "done" /\ err.kind = ParseFailed) =>
        (err.arg = fdss[idx] \/ err.causePath = fdss[idx])

\* C10 (determinism): a call that succeeds on the same descriptor-path mapping
\* and the same ImportMapping as an earlier successful call writes the same
\* bytes, whatever order the map yielded its keys in and whatever calls ran
\* in between.
C10_Determinism ==
    (pc = "done" /\ err = NilErr) =>
        \A h \in history :
           (h.fdsFiles = fdsFiles /\ h.ImportMapping = g.ImportMapping) =>
               h.out = fs.content

C10_Witness ==
    /\ pc = "done"
    /\ err = NilErr
    /\ Cardinality(DOMAIN fdsFiles) >= 2
    /\ yielded # fdss
    /\ \E h \in history :
          /\ h.fdsFiles = fdsFiles
          /\ h.ImportMapping = g.ImportMapping
          /\ h.inOrder
          /\ h.out = fs.content

-----------------------------------------------------------------------------
(* Properties of the helper functions *)

\* C3 (predicate law): for every TypeInfo, containsValueTypeOrResMsg(ti) equals
\* ti.IsValueType or ti.IsResourceMessage or (ti.IsMap and
\* containsValueTypeOrResMsg(ti.MapValue)).
C3_PredicateLaw ==
    helperOut # << >> =>
        helperOut[1] = ( \/ ti.IsValueType
                         \/ ti.IsResourceMessage
                         \/ (ti.IsMap /\ containsValueTypeOrResMsg(ti.MapValue[1])) )

\* index of the first report of an Import value
FirstReport(imp) ==
    CHOOSE i \in DOMAIN reported :
        reported[i] = imp /\ \A j \in 1..(i - 1) : reported[j] # imp

\* the Import value an entry of the accumulator stands for
Reported(entry) == { imp \in ImportValues : "\"" \o imp \o "\"" = entry }

\* C4 (import dedup): after any sequence of reportTypeUsed calls the
\* accumulator holds exactly one entry for each distinct non-empty Import
\* reported, in the order of their first reports; a call with an empty or an
\* already recorded Import leaves it unchanged; every call returns "".
C4_ImportDedup ==
    /\ [](/\ \A i, j \in DOMAIN imprts : i # j => imprts[i] # imprts[j]
          /\ \A i \in DOMAIN imprts :
                \E imp \in Reported(imprts[i]) :
                   imp # "" /\ \E k \in DOMAIN reported : reported[k] = imp
          /\ \A k \in DOMAIN reported :
                reported[k] # "" =>
                   \E i \in DOMAIN imprts : reported[k] \in Reported(imprts[i])
          /\ \A i, j \in DOMAIN imprts :
                i < j => \A a \in Reported(imprts[i]), b \in Reported(imprts[j]) :
                            FirstReport(a) < FirstReport(b)
          /\ helperOut # << >> => helperOut = << "" >>)
    /\ [][ (reported' # reported
              /\ ( \/ reported'[Len(reported')] = ""
                   \/ \E k \in DOMAIN reported : reported[k] = reported'[Len(reported')] ))
           => imprts' = imprts ]_vars

C4_Witness ==
    /\ Len(reported) = 4
    /\ reported[1] = reported[3]
    /\ reported[1] # ""
    /\ reported[2] = ""
    /\ reported[4] \notin { "", reported[1] }
    /\ Len(imprts) = 2

\* the positions of the placeholder token in a buffer
Occurrences(b) == { i \in DOMAIN b : b[i] = placeholder }

\* the import list as it is injected: the imports in accumulator order, a
\* newline between each two
JoinedImports ==
    [ k \in 1..(2 * Len(imprts) - 1) |-> IF k % 2 = 1 THEN imprts[(k + 1) \div 2] ELSE "\n" ]

\* C15 (import injection): of a rendered buffer, exactly one occurrence of the
\* placeholder token is replaced by the accumulated imports, joined with
\* newlines in accumulator order, and everything outside that occurrence is
\* unchanged; a buffer without the token is left as it is.
C15_ImportInjection ==
    pc = "format" =>
       IF Occurrences(buf) = { }
          THEN bytesWithImpts = buf
          ELSE /\ \E i \in Occurrences(buf) :
                     bytesWithImpts = SubSeq(buf, 1, i - 1) \o JoinedImports
                                         \o SubSeq(buf, i + 1, Len(buf))
               /\ Cardinality(Occurrences(bytesWithImpts)) = Cardinality(Occurrences(buf)) - 1

\* an injection of two imports or more into a buffer that holds the token twice
C15_Witness ==
    /\ pc = "format"
    /\ Cardinality(Occurrences(buf)) = 2
    /\ Len(imprts) >= 2
    /\ imprts[1] # imprts[2]

-----------------------------------------------------------------------------
(* Two Generate calls running concurrently, on distinct Generators *)

Calls == { 1, 2 }

\* the OutFilePath of the Generator of each call
OutFilePathOf(c) == IF c = 1 THEN << "a", "a.gen.go" >> ELSE << "b", "b.gen.go" >>

\* an access of call c to a variable: a local of call owner, or (owner 0) a
\* package variable or a file
Access(c, name, owner, kind) ==
    [ call |-> c, var |-> << name, owner >>, kind |-> kind ]

RECURSIVE LoadAll(_, _, _, _)
\* the loop over the sorted paths, when every descriptor loads
LoadAll(paths, i, importMapping, labels) ==
    IF i > Len(paths) THEN << >>
    ELSE << CreateModel(getFileDescSet(paths[i]).fds, importMapping, labels[paths[i]]) >>
             \o LoadAll(paths, i + 1, importMapping, labels)

\* a call, from its entry to format.Source: only its locals are written
ConcRender(c) ==
    /\ gens[c].pc = "start"
    /\ LET paths == SortStrings(CHOOSE o \in KeyOrders(DOMAIN gens[c].fdsFiles) : TRUE)
           ms    == LoadAll(paths, 1, gens[c].ImportMapping, gens[c].fdsFiles)
           r     == Execute(tmplSrc, getParentDirName(gens[c].OutFilePath), ms,
                            MakeImprts(gens[c].imprts))
           bwi   == Replace(r.buf, placeholder, Join(r.imprts, "\n"), 1)
       IN  /\ gens' = [ gens EXCEPT ![c].pc = "prefix", ![c].imprts = r.imprts,
                                    ![c].fmtd = FormatSource(bwi).out ]
           /\ accesses' = accesses
                 \cup { Access(c, "descriptor files", 0, "read") }
                 \cup { Access(c, v, c, "write") :
                          v \in { "imprts", "models", "fdss", "buf", "fmtd" } }
    /\ UNCHANGED << genVars, imprts, ti, helperOut, reported, files, reg, heap,
                    rprocs, lastChange, deleted, calledOps, lastEvent, cov, jobs, bld,
                    egress >>

\* imports.LocalPrefix = "istio.io"
ConcSetPrefix(c) ==
    /\ gens[c].pc = "prefix"
    /\ LocalPrefix' = "istio.io"
    /\ gens' = [ gens EXCEPT ![c].pc = "process" ]
    /\ accesses' = accesses \cup { Access(c, "imports.LocalPrefix", 0, "write") }
    /\ UNCHANGED << disk, tmplSrc, fs, fs0, g, fdsFiles, pc, fdss, idx, models, buf,
                    bytesWithImpts, fmtd, imptd, f, err, yielded, loadLog, stageLog,
                    fsOps, calls, history, imprts, ti, helperOut, reported, files,
                    reg, heap, rprocs, lastChange, deleted, calledOps, lastEvent, cov, jobs, bld,
                    egress >>

\* imptd, err := imports.Process(...), which reads imports.LocalPrefix
ConcProcess(c) ==
    /\ gens[c].pc = "process"
    /\ gens' = [ gens EXCEPT ![c].pc = "create",
                             ![c].imptd = ImportsProcess(gens[c].fmtd, LocalPrefix) ]
    /\ accesses' = accesses
          \cup { Access(c, "imports.LocalPrefix", 0, "read"),
                 Access(c, "imptd", c, "write") }
    /\ UNCHANGED << genVars, imprts, ti, helperOut, reported, files, reg, heap,
                    rprocs, lastChange, deleted, calledOps, lastEvent, cov, jobs, bld,
                    egress >>

\* os.Create(g.OutFilePath), f.Write(imptd) and return nil
ConcWrite(c) ==
    /\ gens[c].pc = "create"
    /\ files' = [ files EXCEPT ![gens[c].OutFilePath] = gens[c].imptd ]
    /\ gens' = [ gens EXCEPT ![c].pc = "done" ]
    /\ accesses' = accesses \cup { Access(c, gens[c].OutFilePath[2], 0, "write") }
    /\ UNCHANGED << genVars, imprts, ti, helperOut, reported, reg, heap, rprocs,
                    lastChange, deleted, calledOps, lastEvent, cov, jobs, bld,
                    egress >>

InitConc ==
    /\ Idle
    /\ IdleExcept("concurrent calls")
    /\ gens \in [ Calls -> { [ pc |-> "start", OutFilePath |-> OutFilePathOf(c),
                              ImportMapping |-> m, fdsFiles |-> fm, imprts |-> << >>,
                              fmtd |-> << >>, imptd |-> << >> ] :
                              c \in Calls, m \in ImportMappings, fm \in FdsFileMaps } ]
    /\ \A c \in Calls : gens[c].OutFilePath = OutFilePathOf(c)
    /\ files = [ o \in { OutFilePathOf(c) : c \in Calls } |-> << >> ]
    /\ accesses = { }

NextConc ==
    \/ \E c \in Calls : ConcRender(c)
    \/ \E c \in Calls : ConcSetPrefix(c)
    \/ \E c \in Calls : ConcProcess(c)
    \/ \E c \in Calls : ConcWrite(c)

SpecConc == InitConc /\ [][NextConc]_vars

\* C11 (no shared mutable state): when two Generate calls on distinct
\* Generators with distinct OutFilePath run concurrently, no variable is written
\* by one call and read or written by the other, and each call writes what it
\* writes when it runs alone.
C11_NoSharedVariable ==
    /\ \A a, b \in accesses :
          (a.call # b.call /\ a.var = b.var) => (a.kind = "read" /\ b.kind = "read")
    /\ \A c \in Calls :
          gens[c].pc = "done" =>
              files[gens[c].OutFilePath] = ImportsProcess(gens[c].fmtd, "istio.io")

-----------------------------------------------------------------------------
(* The identity registry: security/pkg/registry/registry.go *)

\* the variables other than the registry's
notRegVars == << genVars, imprts, ti, helperOut, reported, gens, files, accesses,
                 lastEvent, cov, jobs, bld, egress >>

\* number of registry calls a behaviour starts
MaxRegOps == 3

\* the identities
Ids == { "a", "b" }

\* &IdentityRegistry{Map: make(map[string]string)}, its lock free
NewRegistry == [ Map |-> << >>, readers |-> { }, writer |-> 0 ]

\* a goroutine outside every call; o is the registry it holds
Goroutine(o) ==
    [ fn |-> "idle", pc |-> "idle", handler |-> "", o |-> o, id1 |-> "", id2 |-> "",
      mapped |-> << >>, sawNil |-> FALSE, done |-> "", ret |-> << >>, then |-> << >> ]

\* mapped, ok := reg.Map[id1]: << >> when not ok
Lookup(M, id1) == IF id1 \in DOMAIN M THEN << M[id1] >> ELSE << >>

\* reg.Map[id1] = id2
Store(M, id1, id2) == [ k \in DOMAIN M \cup { id1 } |-> IF k = id1 THEN id2 ELSE M[k] ]

\* a delete that leaves the entry
KeepEntry(M, id1) == M

\* delete(reg.Map, id1)
Delete(M, id1) == [ k \in DOMAIN M \ { id1 } |-> M[k] ]

\* a comparison that forgets id2
CheckOkOnly(l, id2) == l # << >>

\* what Check returns: false if !ok || id2 != mapped
CheckResult(l, id2) == ~ (l = << >> \/ id2 # l[1])

\* the call of a method on registry o
Enter_(p, fn, o, id1, id2, handler) ==
    /\ calledOps' = IF handler = "" THEN calledOps + 1 ELSE calledOps
    /\ rprocs' = [ rprocs EXCEPT ![p] =
                     [ fn |-> fn, pc |-> "RLock", handler |-> handler, o |-> o,
                       id1 |-> id1, id2 |-> id2, mapped |-> << >>, sawNil |-> @.sawNil,
                       done |-> "", ret |-> << >>, then |-> @.then ] ]

\* the return of a method, and of the handler that called it
Return_(p, ret) ==
    rprocs' = [ rprocs EXCEPT ![p].fn = "idle", ![p].pc = "idle", ![p].handler = "",
                              ![p].done = rprocs[p].fn, ![p].ret = ret ]

\* a caller that holds the registry calls Check, AddMapping or DeleteMapping
CallMethod(p) ==
    /\ rprocs[p].fn = "idle"
    /\ rprocs[p].o # 0
    /\ calledOps < MaxRegOps
    /\ \E fn \in { "Check", "AddMapping", "DeleteMapping" }, id1 \in Ids, id2 \in Ids :
          Enter_(p, fn, rprocs[p].o, id1, id2, "")
    /\ UNCHANGED << notRegVars, reg, heap, lastChange, deleted >>

\* reg.RLock()
RLock(p) ==
    /\ rprocs[p].pc = "RLock"
    /\ heap[rprocs[p].o].writer = 0
    /\ heap' = [ heap EXCEPT ![rprocs[p].o].readers = @ \cup { p } ]
    /\ rprocs' = [ rprocs EXCEPT ![p].pc = "read" ]
    /\ UNCHANGED << notRegVars, reg, lastChange, deleted, calledOps >>

\* mapped, ok := reg.Map[id1]
ReadMap(p) ==
    /\ rprocs[p].pc = "read"
    /\ rprocs' = [ rprocs EXCEPT ![p].pc = "RUnlock",
                                 ![p].mapped = Lookup(heap[rprocs[p].o].Map, rprocs[p].id1) ]
    /\ UNCHANGED << notRegVars, reg, heap, lastChange, deleted, calledOps >>

\* reg.RUnlock() of Check, and its return
CheckRUnlock(p) ==
    /\ rprocs[p].pc = "RUnlock"
    /\ rprocs[p].fn = "Check"
    /\ heap' = [ heap EXCEPT ![rprocs[p].o].readers = @ \ { p } ]
    /\ Return_(p, << CheckResult(rprocs[p].mapped, rprocs[p].id2) >>)
    /\ UNCHANGED << notRegVars, reg, lastChange, deleted, calledOps >>

\* reg.RUnlock() of AddMapping, and the warning
AddRUnlock(p) ==
    /\ rprocs[p].pc = "RUnlock"
    /\ rprocs[p].fn = "AddMapping"
    /\ heap' = [ heap EXCEPT ![rprocs[p].o].readers = @ \ { p } ]
    /\ rprocs' = [ rprocs EXCEPT ![p].pc = "Lock" ]
    /\ UNCHANGED << notRegVars, reg, lastChange, deleted, calledOps >>

\* reg.RUnlock() of DeleteMapping, and the return when the mapping is not there
DeleteRUnlock(p) ==
    /\ rprocs[p].pc = "RUnlock"
    /\ rprocs[p].fn = "DeleteMapping"
    /\ heap' = [ heap EXCEPT ![rprocs[p].o].readers = @ \ { p } ]
    /\ IF rprocs[p].mapped = << >> \/ rprocs[p].mapped[1] # rprocs[p].id2
          THEN Return_(p, << >>)
          ELSE rprocs' = [ rprocs EXCEPT ![p].pc = "Lock" ]
    /\ UNCHANGED << notRegVars, reg, lastChange, deleted, calledOps >>

\* reg.Lock()
Lock(p) ==
    /\ rprocs[p].pc = "Lock"
    /\ heap[rprocs[p].o].writer = 0
    /\ heap[rprocs[p].o].readers = { }
    /\ heap' = [ heap EXCEPT ![rprocs[p].o].writer = p ]
    /\ rprocs' = [ rprocs EXCEPT ![p].pc = "write" ]
    /\ UNCHANGED << notRegVars, reg, lastChange, deleted, calledOps >>

\* reg.Map[id1] = id2
AddWrite(p) ==
    /\ rprocs[p].pc = "write"
    /\ rprocs[p].fn = "AddMapping"
    /\ heap' = [ heap EXCEPT ![rprocs[p].o].Map = Store(@, rprocs[p].id1, rprocs[p].id2) ]
    /\ lastChange' = [ lastChange EXCEPT ![rprocs[p].o] =
                         Store(@, rprocs[p].id1, << "AddMapping", rprocs[p].id2 >>) ]
    /\ rprocs' = [ rprocs EXCEPT ![p].pc = "Unlock" ]
    /\ UNCHANGED << notRegVars, reg, deleted, calledOps >>

\* delete(reg.Map, id1)
DeleteWrite(p) ==
    /\ rprocs[p].pc = "write"
    /\ rprocs[p].fn = "DeleteMapping"
    /\ heap' = [ heap EXCEPT ![rprocs[p].o].Map = Delete(@, rprocs[p].id1) ]
    /\ lastChange' = [ lastChange EXCEPT ![rprocs[p].o] =
                         IF rprocs[p].id1 \in DOMAIN heap[rprocs[p].o].Map
                            THEN Store(@, rprocs[p].id1, << "DeleteMapping", rprocs[p].id2 >>)
                            ELSE @ ]
    /\ deleted' = deleted \cup
                    { [ id1 |-> rprocs[p].id1, id2 |-> rprocs[p].id2,
                        was |-> Lookup(heap[rprocs[p].o].Map, rprocs[p].id1) ] }
    /\ rprocs' = [ rprocs EXCEPT ![p].pc = "Unlock" ]
    /\ UNCHANGED << notRegVars, reg, calledOps >>

\* reg.Unlock(), and the return
Unlock(p) ==
    /\ rprocs[p].pc = "Unlock"
    /\ heap' = [ heap EXCEPT ![rprocs[p].o].writer = 0 ]
    /\ Return_(p, << >>)
    /\ UNCHANGED << notRegVars, reg, lastChange, deleted, calledOps >>

\* the goroutines P and the package variable reg: nil, or a registry that was
\* created and is empty
InitReg(P, created) ==
    /\ Idle
    /\ IdleExcept("registry")
    /\ reg = IF created THEN 1 ELSE 0
    /\ heap = IF created THEN << NewRegistry >> ELSE << >>
    /\ rprocs = [ p \in P |-> Goroutine(reg) ]
    /\ lastChange = IF created THEN << << >> >> ELSE << >>
    /\ deleted = { }
    /\ calledOps = 0
    /\ lastEvent = << >>

\* ---- two goroutines calling the methods of one registry
NextReg ==
    \/ \E p \in DOMAIN rprocs : CallMethod(p)
    \/ \E p \in DOMAIN rprocs : RLock(p)
    \/ \E p \in DOMAIN rprocs : ReadMap(p)
    \/ \E p \in DOMAIN rprocs : CheckRUnlock(p)
    \/ \E p \in DOMAIN rprocs : AddRUnlock(p)
    \/ \E p \in DOMAIN rprocs : DeleteRUnlock(p)
    \/ \E p \in DOMAIN rprocs : Lock(p)
    \/ \E p \in DOMAIN rprocs : AddWrite(p)
    \/ \E p \in DOMAIN rprocs : DeleteWrite(p)
    \/ \E p \in DOMAIN rprocs : Unlock(p)

SpecRegConc == InitReg({ 1, 2 }, TRUE) /\ [][NextReg]_vars

\* C12 (guarded deletion): under every interleaving of DeleteMapping with
\* concurrent AddMapping and DeleteMapping calls on one registry,
\* DeleteMapping(id1, id2) removes the entry of id1 only when id1 is mapped to
\* id2; a mapping id1 -> id3 to another identity is never removed by it.
C12_DeleteOnlyMatching ==
    \A d \in deleted : d.was # << >> => d.was = << d.id2 >>

\* ---- one goroutine calling the methods of the registry, one after the other
SpecRegSeq == InitReg({ 1 }, TRUE) /\ [][NextReg]_vars

\* a call of Check has just returned to goroutine p
CheckReturned(p) == rprocs[p].fn = "idle" /\ rprocs[p].done = "Check"

\* C13 (Check law): after any sequence of AddMapping and DeleteMapping calls,
\* Check(id1, id2) returns true exactly when the last call that changed the
\* entry of id1 was AddMapping(id1, id2), and false when id1 has no entry or
\* is mapped to another identity.
C13_CheckLaw ==
    \A p \in DOMAIN rprocs :
       CheckReturned(p) =>
          LET r == rprocs[p]
              M == heap[r.o].Map
          IN  /\ r.ret = << Lookup(lastChange[r.o], r.id1) = << << "AddMapping", r.id2 >> >> >>
              /\ (r.id1 \notin DOMAIN M \/ M[r.id1] # r.id2) => r.ret = << FALSE >>
              /\ r.ret \in { << TRUE >>, << FALSE >> }

\* a Check that succeeded on a mapping of an identity to another identity
C13_Witness ==
    \E p \in DOMAIN rprocs :
       /\ CheckReturned(p)
       /\ rprocs[p].ret = << TRUE >>
       /\ rprocs[p].id1 # rprocs[p].id2

\* ---- the service-event handlers, called from two goroutines before the
\* ---- registry exists

\* the annotation that names the service account of a service
KubeServiceAccountsOnVMAnnotation == "alpha.istio.io/kubernetes-serviceaccounts"

\* the services of the events: svc.ObjectMeta.Annotations, with and without
\* the service account
Services ==
    { [ Annotations |-> << >> ] }
       \cup { [ Annotations |-> [ k \in { KubeServiceAccountsOnVMAnnotation } |-> id ] ] :
                id \in Ids }

\* a handler: svcAcct, ok := svc.ObjectMeta.Annotations[...]; if ok, the call
\* of GetIdentityRegistry() starts; then is what the caller does afterwards
Handler(p, name, svc, then) ==
    LET l == Lookup(svc.Annotations, KubeServiceAccountsOnVMAnnotation)
    IN  /\ rprocs[p].fn = "idle"
        /\ lastEvent' = IF l = << >> THEN lastEvent ELSE Store(lastEvent, l[1], name)
        /\ rprocs' = [ rprocs EXCEPT ![p] =
              IF l = << >>
                 THEN [ @ EXCEPT !.done = name, !.ret = << >>, !.then = then ]
                 ELSE [ fn |-> "GetIdentityRegistry", pc |-> "reg == nil", handler |-> name,
                        o |-> @.o, id1 |-> l[1], id2 |-> l[1], mapped |-> << >>,
                        sawNil |-> FALSE, done |-> "", ret |-> << >>, then |-> then ] ]
        /\ UNCHANGED << genVars, imprts, ti, helperOut, reported, gens, files, accesses,
                        cov, jobs, bld, egress, reg, heap, lastChange, deleted >>

\* the service controller calls a handler on a goroutine that is in none
Event(p) ==
    /\ rprocs[p].then = << >>
    /\ calledOps < MaxRegOps
    /\ calledOps' = calledOps + 1

K8SServiceAdded(p) ==
    Event(p) /\ \E svc \in Services : Handler(p, "K8SServiceAdded", svc, << >>)

K8SServiceDeleted(p) ==
    Event(p) /\ \E svc \in Services : Handler(p, "K8SServiceDeleted", svc, << >>)

\* K8SServiceDeleted(oldSvc), and when it has returned K8SServiceAdded(newSvc)
K8SServiceUpdated(p) ==
    \/ /\ Event(p)
       /\ \E oldSvc \in Services, newSvc \in Services :
             Handler(p, "K8SServiceDeleted", oldSvc, << newSvc >>)
    \/ /\ rprocs[p].then # << >>
       /\ calledOps' = calledOps
       /\ Handler(p, "K8SServiceAdded", rprocs[p].then[1], << >>)

\* if reg == nil
GetNilCheck(p) ==
    /\ rprocs[p].pc = "reg == nil"
    /\ rprocs' = [ rprocs EXCEPT ![p].sawNil = (reg = 0),
                                 ![p].pc = IF reg = 0 THEN "reg = new" ELSE "return reg" ]
    /\ UNCHANGED << notRegVars, reg, heap, lastChange, deleted, calledOps >>

\* reg = &IdentityRegistry{Map: make(map[string]string)}
GetNew(p) ==
    /\ rprocs[p].pc = "reg = new"
    /\ heap' = Append(heap, NewRegistry)
    /\ lastChange' = Append(lastChange, << >>)
    /\ reg' = Len(heap) + 1
    /\ rprocs' = [ rprocs EXCEPT ![p].pc = "return reg" ]
    /\ UNCHANGED << notRegVars, deleted, calledOps >>

\* return reg, and the handler's call of AddMapping or DeleteMapping on it
GetReturn(p) ==
    /\ rprocs[p].pc = "return reg"
    /\ Enter_(p, IF rprocs[p].handler = "K8SServiceAdded" THEN "AddMapping"
                                                          ELSE "DeleteMapping",
              reg, rprocs[p].id1, rprocs[p].id2, rprocs[p].handler)
    /\ UNCHANGED << notRegVars, reg, heap, lastChange, deleted >>

NextHandlers ==
    \/ \E p \in DOMAIN rprocs : K8SServiceAdded(p)
    \/ \E p \in DOMAIN rprocs : K8SServiceDeleted(p)
    \/ \E p \in DOMAIN rprocs : K8SServiceUpdated(p)
    \/ \E p \in DOMAIN rprocs : GetNilCheck(p)
    \/ \E p \in DOMAIN rprocs : GetNew(p)
    \/ \E p \in DOMAIN rprocs : GetReturn(p)
    \/ \E p \in DOMAIN rprocs : RLock(p)
    \/ \E p \in DOMAIN rprocs : ReadMap(p)
    \/ \E p \in DOMAIN rprocs : AddRUnlock(p)
    \/ \E p \in DOMAIN rprocs : DeleteRUnlock(p)
    \/ \E p \in DOMAIN rprocs : Lock(p)
    \/ \E p \in DOMAIN rprocs : AddWrite(p)
    \/ \E p \in DOMAIN rprocs : DeleteWrite(p)
    \/ \E p \in DOMAIN rprocs : Unlock(p)

SpecHandlersConc == InitReg({ 1, 2 }, FALSE) /\ [][NextHandlers]_vars

\* C14 (singleton registry): every call of GetIdentityRegistry, the calls made
\* concurrently from two handlers before the registry exists included, returns
\* the same registry object, so that every mapping added through one call's
\* result is in the registry every other call gets.
C14_Singleton ==
    /\ \A p, q \in DOMAIN rprocs :
          (rprocs[p].o # 0 /\ rprocs[q].o # 0) => rprocs[p].o = rprocs[q].o
    /\ \A o \in DOMAIN heap : heap[o].Map # << >> => o = reg

-----------------------------------------------------------------------------
(* The naming helpers of the template: getTypeName and getResourcMessage*Name *)

\* longest TypeInfo name, in characters
MaxNameLen == 4

\* number of parts a message name is made of
MaxNameParts == 2

\* Go type names as modelgen writes them, character by character ("*Foo",
\* "[]*Foo", "Foo"), over the pointer marker, the end of a slice or map prefix
\* and letters; a type name does not end with the pointer marker
TypeNames ==
    { n \in UNION { [ 1..l -> { "*", "]", "F", "o" } ] : l \in 0..MaxNameLen } :
         Len(n) > 0 => n[Len(n)] # "*" }

RECURSIVE TrimLeft(_, _)
\* strings.TrimLeft(s, cutset)
TrimLeft(s, cutset) ==
    IF Len(s) > 0 /\ s[1] \in cutset THEN TrimLeft(Tail(s), cutset) ELSE s

RECURSIVE TrimRight(_, _)
\* strings.TrimRight(s, cutset)
TrimRight(s, cutset) ==
    IF Len(s) > 0 /\ s[Len(s)] \in cutset
       THEN TrimRight(SubSeq(s, 1, Len(s) - 1), cutset)
       ELSE s

\* strings.TrimPrefix(s, "*"): one marker at most
TrimPrefix(s, cutset) == IF Len(s) > 0 /\ s[1] \in cutset THEN Tail(s) ELSE s

\* strings.Trim(s, cutset): all leading and trailing characters of cutset
Trim(s, cutset) == TrimRight(TrimLeft(s, cutset), cutset)

\* return strings.Trim(goType.Name, "*")
getTypeName(goType) == Trim(goType.Name, { "*" })

\* the pieces message names are made of
NameParts == { "", "Template", "template", "Foo", "Type", "Instance", "InstanceParam" }

RECURSIVE MessageNames(_)
\* the names of up to k parts
MessageNames(k) ==
    IF k = 0 THEN { "" }
    ELSE { a \o b : a \in NameParts, b \in MessageNames(k - 1) }

\* the helper named fn, applied to s
NamingHelper(fn, s) ==
    CASE fn = "getResourcMessageTypeName" -> getResourcMessageTypeName(s)
      [] fn = "getResourcMessageInstanceName" -> getResourcMessageInstanceName(s)
      [] fn = "getResourcMessageInterfaceParamTypeName" ->
             getResourcMessageInterfaceParamTypeName(s)

InitHelpers ==
    /\ Idle
    /\ IdleExcept("")

\* the template calls getTypeName on a TypeInfo (one call is looked at)
CallGetTypeName ==
    /\ helperOut = << >>
    /\ \E n \in TypeNames, isRes \in BOOLEAN :
          /\ ti' = TypeInfo(n, FALSE, isRes, FALSE, << >>, "")
          /\ helperOut' = << "getTypeName", getTypeName(ti') >>
    /\ UNCHANGED << genVars, imprts, reported, extVars >>

\* the template calls one of the three naming helpers on a message name
CallNaming(fn) ==
    /\ helperOut = << >>
    /\ \E s \in MessageNames(MaxNameParts) :
          helperOut' = << fn, s, NamingHelper(fn, s) >>
    /\ ti' = NoType
    /\ UNCHANGED << genVars, imprts, reported, extVars >>

NextHelpers ==
    \/ CallGetTypeName
    \/ CallNaming("getResourcMessageTypeName")
    \/ CallNaming("getResourcMessageInstanceName")
    \/ CallNaming("getResourcMessageInterfaceParamTypeName")

SpecHelpers == InitHelpers /\ [][NextHelpers]_vars

\* the number of pointer markers a name starts with
LeadingMarkers(n) ==
    Cardinality({ k \in 1..Len(n) : \A j \in 1..k : n[j] = "*" })

\* getTypeName has been called
GotTypeName == helperOut # << >> /\ helperOut[1] = "getTypeName"

Named(fn) == helperOut # << >> /\ helperOut[1] = fn

\* C17 (naming): for the reserved name "Template" the three helpers return
\* "Type", "Instance" and "InstanceParam"; for every other name n they return
\* n + "Type", n and n + "InstanceParam".
C17_Naming ==
    /\ Named("getResourcMessageTypeName") =>
          helperOut[3] = IF helperOut[2] = "Template" THEN "Type"
                                                      ELSE helperOut[2] \o "Type"
    /\ Named("getResourcMessageInstanceName") =>
          helperOut[3] = IF helperOut[2] = "Template" THEN "Instance" ELSE helperOut[2]
    /\ Named("getResourcMessageInterfaceParamTypeName") =>
          helperOut[3] = IF helperOut[2] = "Template" THEN "InstanceParam"
                                                      ELSE helperOut[2] \o "InstanceParam"

\* the instance-name helper on a name that only starts with the reserved name
C17_Witness ==
    /\ Named("getResourcMessageInstanceName")
    /\ helperOut[2] = "TemplateFoo"
    /\ helperOut[3] = "TemplateFoo"

-----------------------------------------------------------------------------
(* bin/codecov.sh: one go test job per package, in the background *)

\* the variables other than the script's
notCovVars == << genVars, imprts, ti, helperOut, reported, gens, files, accesses,
                 reg, heap, rprocs, lastChange, deleted, calledOps, lastEvent,
                 bld, egress >>

\* number of packages go list prints
MaxPkgs == 3

\* number of online CPUs, and largest preset value of maxprocs
MaxCpus == 4

\* the package lists, and what the loop does with each package: "skipped" for
\* istio.io/istio/tests* and istio.io/istio/mixer/tools/codegen*
PkgLists == UNION { [ 1..n -> { "tested", "skipped" } ] : n \in 0..MaxPkgs }

\* maxprocs: the caller's value, or half the number of CPUs when it is unset
\* or empty
Maxprocs(preset, cpus) == IF preset = << >> THEN cpus \div 2 ELSE preset[1]

\* the pids of the jobs that are running
Running == { pid \in DOMAIN jobs : jobs[pid].state = "running" }

\* ret after a wait that overwrites it
WaitRetLast(ret, code) == IF code # 0 THEN 1 ELSE 0

\* ret after "if ! wait $p; then ret=1; fi"
WaitRet(ret, code) == IF code # 0 THEN 1 ELSE ret

InitCov ==
    /\ Idle
    /\ IdleExcept("codecov.sh")
    /\ \E list \in PkgLists, preset \in { << >> } \cup { << n >> : n \in 0..MaxCpus },
          cpus \in 1..MaxCpus :
          cov = [ pc |-> "for", pkgs |-> list, maxprocs |-> Maxprocs(preset, cpus),
                  i |-> 0, num |-> 0, pids |-> << >>, ret |-> 0, w |-> 1,
                  waited |-> { }, exit |-> << >> ]
    /\ jobs = << >>

\* for d in ...: a skipped package
CovSkip ==
    /\ cov.pc = "for"
    /\ cov.i < Len(cov.pkgs)
    /\ cov.pkgs[cov.i + 1] = "skipped"
    /\ cov' = [ cov EXCEPT !.i = @ + 1 ]
    /\ UNCHANGED << notCovVars, jobs >>

\* go test -coverprofile=$TMPDIR/$i $d &; pid=$!; pids+=" $pid"
CovLaunch ==
    /\ cov.pc = "for"
    /\ cov.i < Len(cov.pkgs)
    /\ cov.pkgs[cov.i + 1] = "tested"
    /\ jobs' = Append(jobs, [ state |-> "running", code |-> 0 ])
    /\ cov' = [ cov EXCEPT !.i = @ + 1, !.pids = Append(@, Len(jobs) + 1), !.pc = "num" ]
    /\ UNCHANGED notCovVars

\* num=$(jobs -p|wc -l) and the test of the while loop
CovCount ==
    /\ cov.pc = "num"
    /\ cov' = [ cov EXCEPT !.num = Cardinality(Running),
                           !.pc = IF Cardinality(Running) > cov.maxprocs THEN "sleep"
                                                                         ELSE "for" ]
    /\ UNCHANGED << notCovVars, jobs >>

\* sleep 2
CovSleep ==
    /\ cov.pc = "sleep"
    /\ cov' = [ cov EXCEPT !.pc = "num" ]
    /\ UNCHANGED << notCovVars, jobs >>

\* a go test job ends, with exit status 0 or 1
JobExit ==
    /\ \E pid \in Running, code \in { 0, 1 } :
          jobs' = [ jobs EXCEPT ![pid] = [ state |-> "exited", code |-> code ] ]
    /\ UNCHANGED << notCovVars, cov >>

\* the end of the for loop: touch, cat, ret=0
CovCollect ==
    /\ cov.pc = "for"
    /\ cov.i = Len(cov.pkgs)
    /\ cov' = [ cov EXCEPT !.pc = "wait", !.ret = 0, !.w = 1 ]
    /\ UNCHANGED << notCovVars, jobs >>

\* if ! wait $p; then ret=1; fi: returns when the job has ended
CovWait ==
    /\ cov.pc = "wait"
    /\ cov.w <= Len(cov.pids)
    /\ jobs[cov.pids[cov.w]].state = "exited"
    /\ cov' = [ cov EXCEPT !.ret = WaitRet(@, jobs[cov.pids[cov.w]].code),
                           !.waited = @ \cup { cov.pids[cov.w] },
                           !.w = @ + 1 ]
    /\ UNCHANGED << notCovVars, jobs >>

\* exit $ret
CovExit ==
    /\ cov.pc = "wait"
    /\ cov.w > Len(cov.pids)
    /\ cov' = [ cov EXCEPT !.pc = "exited", !.exit = << cov.ret >> ]
    /\ UNCHANGED << notCovVars, jobs >>

NextCov ==
    \/ CovSkip
    \/ CovLaunch
    \/ CovCount
    \/ CovSleep
    \/ JobExit
    \/ CovCollect
    \/ CovWait
    \/ CovExit

SpecCov == InitCov /\ [][NextCov]_vars

\* C18 (the script fails if a test fails): whatever the packages and the
\* order in which the jobs end, the script exits non-zero if and only if a
\* launched job exited non-zero, and every launched job has been waited for
\* when the script exits.
C18_ExitStatus ==
    cov.pc = "exited" =>
       /\ cov.exit # << 0 >> <=> \E pid \in DOMAIN jobs : jobs[pid].code # 0
       /\ cov.waited = DOMAIN jobs
       /\ Running = { }
       /\ Len(jobs) = Cardinality({ k \in DOMAIN cov.pkgs : cov.pkgs[k] = "tested" })

\* an exit with status 1 after the first job failed and the last one passed,
\* the last one ending first
C18_Witness ==
    /\ cov.pc = "exited"
    /\ cov.exit = << 1 >>
    /\ Len(jobs) >= 2
    /\ jobs[1].code = 1
    /\ jobs[Len(jobs)].code = 0
    /\ \E k \in DOMAIN cov.pkgs : cov.pkgs[k] = "skipped"

\* C19 (parallelism bound): at every moment the number of go test jobs that
\* run concurrently is at most maxprocs.
C19_AtMostMaxprocs ==
    cov.pc # "idle" => Cardinality(Running) <= cov.maxprocs

-----------------------------------------------------------------------------
(* The build start script: parse_result_file and the wait loop *)

\* the variables of the generator, the registry and codecov.sh
notBldVars == << genVars, imprts, ti, helperOut, reported, gens, files, accesses,
                 reg, heap, rprocs, lastChange, deleted, calledOps, lastEvent, cov,
                 jobs >>

\* number of build queries a behaviour makes
MaxPolls == 3

\* the responses to a build query, as far as parse_result_file reads them:
\* whether there is an "error" object, and the value of "status" (one of a
\* build, one of an error object, or none)
Responses ==
    [ status : { "", "QUEUED", "WORKING", "SUCCESS", "FAILURE", "CANCELLED", "TIMEOUT",
                 "INTERNAL_ERROR", "STATUS_UNKNOWN", "INVALID_ARGUMENT", "ERROR" },
      error : BOOLEAN ]

\* a parser for which a working build has failed
parseWorkingFailed(INPUT_FILE) ==
    LET STATUS_VALUE == IF INPUT_FILE.error THEN "ERROR" ELSE INPUT_FILE.status
    IN  CASE STATUS_VALUE = "QUEUED" -> 1
          [] STATUS_VALUE = "SUCCESS" -> 0
          [] OTHER -> 2

\* parse_result_file: STATUS_VALUE is "ERROR" when there is an error object,
\* then the case statement
parse_result_file(INPUT_FILE) ==
    LET STATUS_VALUE == IF INPUT_FILE.error THEN "ERROR" ELSE INPUT_FILE.status
    IN  CASE STATUS_VALUE = "ERROR" -> 2
          [] STATUS_VALUE = "FAILURE" -> 2
          [] STATUS_VALUE = "CANCELLED" -> 2
          [] STATUS_VALUE = "QUEUED" -> 1
          [] STATUS_VALUE = "WORKING" -> 1
          [] STATUS_VALUE = "SUCCESS" -> 0
          [] OTHER -> 2

InitBld ==
    /\ Idle
    /\ IdleExcept("build")
    /\ \E w \in BOOLEAN :
          bld = [ pc |-> "if", WAIT_FOR_RESULT |-> w,
                  RESULT_FILE |-> [ status |-> "", error |-> FALSE ],
                  PARSE_RESULT |-> 0, results |-> << >>, exit |-> << >> ]

\* curl -o "${RESULT_FILE}"; parse_result_file "${RESULT_FILE}"; PARSE_RESULT=$?
Poll(response) ==
    bld' = [ bld EXCEPT !.RESULT_FILE = response,
                        !.PARSE_RESULT = parse_result_file(response),
                        !.results = Append(@, parse_result_file(response)),
                        !.pc = "while" ]

\* WAIT_FOR_RESULT is not "true": rm -f and the end of the script
BldNoWait ==
    /\ bld.pc = "if"
    /\ ~ bld.WAIT_FOR_RESULT
    /\ bld' = [ bld EXCEPT !.pc = "exited", !.exit = << 0 >> ]
    /\ UNCHANGED << notBldVars, egress >>

\* the first query
BldFirstPoll ==
    /\ bld.pc = "if"
    /\ bld.WAIT_FOR_RESULT
    /\ \E response \in Responses : Poll(response)
    /\ UNCHANGED << notBldVars, egress >>

\* while [ $PARSE_RESULT -eq 1 ]; do sleep 60
BldSleep ==
    /\ bld.pc = "while"
    /\ bld.PARSE_RESULT = 1
    /\ Len(bld.results) < MaxPolls
    /\ bld' = [ bld EXCEPT !.pc = "sleep" ]
    /\ UNCHANGED << notBldVars, egress >>

\* the query in the loop
BldPollAgain ==
    /\ bld.pc = "sleep"
    /\ \E response \in Responses : Poll(response)
    /\ UNCHANGED << notBldVars, egress >>

\* done; rm -f "${RESULT_FILE}"; exit $PARSE_RESULT
BldExit ==
    /\ bld.pc = "while"
    /\ bld.PARSE_RESULT # 1
    /\ bld' = [ bld EXCEPT !.pc = "exited", !.exit = << bld.PARSE_RESULT >> ]
    /\ UNCHANGED << notBldVars, egress >>

NextBld ==
    \/ BldNoWait
    \/ BldFirstPoll
    \/ BldSleep
    \/ BldPollAgain
    \/ BldExit

SpecBld == InitBld /\ [][NextBld]_vars

\* what a response says about the build
Successful(r) == r.status = "SUCCESS" /\ ~ r.error
StillRunning(r) == r.status \in { "QUEUED", "WORKING" } /\ ~ r.error

\* C20 (build polling): parse_result_file returns 0 for a successful build,
\* 1 for a build that is queued or working and 2 for everything else; with -w
\* the script polls again exactly while the result is 1, does not exit on a
\* response that says the build is still running, and exits with the result of
\* the last poll.
C20_Polling ==
    /\ bld.results # << >> =>
          /\ bld.PARSE_RESULT = bld.results[Len(bld.results)]
          /\ bld.PARSE_RESULT = 0 <=> Successful(bld.RESULT_FILE)
          /\ bld.PARSE_RESULT = 1 <=> StillRunning(bld.RESULT_FILE)
          /\ bld.PARSE_RESULT = 2 <=>
                ~ Successful(bld.RESULT_FILE) /\ ~ StillRunning(bld.RESULT_FILE)
          /\ \A k \in 1..(Len(bld.results) - 1) : bld.results[k] = 1
    /\ bld.pc = "sleep" => StillRunning(bld.RESULT_FILE)
    /\ (bld.pc = "exited" /\ bld.WAIT_FOR_RESULT) =>
          /\ bld.results # << >>
          /\ ~ StillRunning(bld.RESULT_FILE)
          /\ bld.exit = << bld.results[Len(bld.results)] >>

\* an exit with 0 after two polls that found the build queued, then working
C20_Witness ==
    /\ bld.pc = "exited"
    /\ bld.exit = << 0 >>
    /\ bld.results = << 1, 1, 0 >>
    /\ bld.RESULT_FILE.status = "SUCCESS"

-----------------------------------------------------------------------------
(* pilot/model: RejectConflictingEgressRules, and its test *)

\* number of rules in a map of egress rules
MaxRules == 3

\* the keys of the rules, as character codes (digits 1..3 as 1..3, b = 12,
\* c = 13, n = 24): "bbc", "cnn", "cnn1", "cnn2", "cnn3"
EgressKeys ==
    { << 12, 12, 13 >>, << 13, 24, 24 >>, << 13, 24, 24, 1 >>, << 13, 24, 24, 2 >>,
      << 13, 24, 24, 3 >> }

\* proxyconfig.EgressRule: the destination service and the ports
EgressRule(service, ports) ==
    [ Destination |-> [ Service |-> service ],
      Ports |-> [ i \in 1..2 |-> [ Port |-> ports[i],
                                   Protocol |-> IF i = 1 THEN "http" ELSE "https" ] ] ]

\* the table of TestRejectConflictingEgressRules
cases ==
    LET cnn == << 13, 24, 24 >>
        bbc == << 12, 12, 13 >>
        cnn1 == << 13, 24, 24, 1 >>
        cnn2 == << 13, 24, 24, 2 >>
        cnn3 == << 13, 24, 24, 3 >>
        std == << 80, 443 >>
        alt == << 8080, 8081 >>
    IN  { [ name |-> "no conflicts",
            in |-> [ k \in { cnn, bbc } |->
                       EgressRule(IF k = cnn THEN "*cnn.com" ELSE "*bbc.com", std) ],
            out |-> [ k \in { cnn, bbc } |->
                        EgressRule(IF k = cnn THEN "*cnn.com" ELSE "*bbc.com", std) ],
            valid |-> TRUE ],
          [ name |-> "a conflict in a domain",
            in |-> [ k \in { cnn2, cnn1 } |-> EgressRule("*cnn.com", std) ],
            out |-> [ k \in { cnn1 } |-> EgressRule("*cnn.com", std) ],
            valid |-> FALSE ],
          [ name |-> "a conflict in a domain, different ports",
            in |-> [ k \in { cnn2, cnn1 } |->
                       EgressRule("*cnn.com", IF k = cnn2 THEN std ELSE alt) ],
            out |-> [ k \in { cnn1 } |-> EgressRule("*cnn.com", alt) ],
            valid |-> FALSE ],
          [ name |-> "two conflicts, two rules rejected",
            in |-> [ k \in { cnn2, cnn1, cnn3 } |-> EgressRule("*cnn.com", std) ],
            out |-> [ k \in { cnn1 } |-> EgressRule("*cnn.com", std) ],
            valid |-> FALSE ] }

\* the maps of egress rules handed to the function: the ones of the test among
\* them
EgressInputs ==
    UNION { [ K -> { EgressRule(sv, ports) : sv \in { "*cnn.com", "*bbc.com" },
                        ports \in { << 80, 443 >>, << 8080, 8081 >> } } ] :
              K \in { S \in SUBSET EgressKeys : Cardinality(S) <= MaxRules } }

\* a conflict only between rules that also have the same ports
conflictingPorts(egressRules, domains, egressRule) ==
    /\ egressRule.Destination.Service \in DOMAIN domains
    /\ egressRules[domains[egressRule.Destination.Service]].Ports = egressRule.Ports

\* a rule kept earlier has the domain of egressRule
conflictingRule(egressRules, domains, egressRule) ==
    egressRule.Destination.Service \in DOMAIN domains

InitEgress ==
    /\ Idle
    /\ IdleExcept("egress rules")
    /\ \E in \in EgressInputs :
          egress = [ pc |-> "keys", egressRules |-> in, keys |-> << >>, i |-> 1,
                     domains |-> << >>, filteredEgressRules |-> << >>, errs |-> << >> ]

\* the keys of the map, in the order the map yields them, then sorted
EgressSortKeys ==
    /\ egress.pc = "keys"
    /\ \E o \in KeyOrders(DOMAIN egress.egressRules) :
          egress' = [ egress EXCEPT !.keys = SortStrings(o), !.pc = "range" ]
    /\ UNCHANGED << notBldVars, bld >>

\* one rule, in the order of the keys: rejected with an error if a rule kept
\* earlier has its domain, kept otherwise
EgressNextRule ==
    /\ egress.pc = "range"
    /\ egress.i <= Len(egress.keys)
    /\ LET egressRuleKey == egress.keys[egress.i]
           egressRule == egress.egressRules[egressRuleKey]
           domain == egressRule.Destination.Service
       IN  IF conflictingRule(egress.egressRules, egress.domains, egressRule)
              THEN egress' = [ egress EXCEPT
                                 !.errs = Append(@, [ rejected |-> egressRuleKey,
                                                      kept |-> egress.domains[domain],
                                                      domain |-> domain ]),
                                 !.i = @ + 1 ]
              ELSE egress' = [ egress EXCEPT
                                 !.domains = Store(@, domain, egressRuleKey),
                                 !.filteredEgressRules = Store(@, egressRuleKey, egressRule),
                                 !.i = @ + 1 ]
    /\ UNCHANGED << notBldVars, bld >>

\* return filteredEgressRules, errs
EgressReturn ==
    /\ egress.pc = "range"
    /\ egress.i > Len(egress.keys)
    /\ egress' = [ egress EXCEPT !.pc = "returned" ]
    /\ UNCHANGED << notBldVars, bld >>

NextEgress ==
    \/ EgressSortKeys
    \/ EgressNextRule
    \/ EgressReturn

SpecEgress == InitEgress /\ [][NextEgress]_vars

\* the keys of the input rules that have the destination service of rule k
SameService(k) ==
    { j \in DOMAIN egress.egressRules :
         egress.egressRules[j].Destination.Service
            = egress.egressRules[k].Destination.Service }

\* C21 (RejectConflictingEgressRules): the returned map is a subset of the
\* input in which no two rules have the same destination service; of the input
\* rules that share a destination service, whatever their ports, only the one
\* with the lexicographically smallest key is kept; the errors are nil exactly
\* when no rule was rejected, and then the output is the input. On the inputs
\* of the test, the result is the one the test expects.
C21_RejectConflicting ==
    egress.pc = "returned" =>
       LET in == egress.egressRules
           out == egress.filteredEgressRules
       IN  /\ DOMAIN out \subseteq DOMAIN in
           /\ \A k \in DOMAIN out : out[k] = in[k]
           /\ \A k, j \in DOMAIN out :
                 k # j => out[k].Destination.Service # out[j].Destination.Service
           /\ \A k \in DOMAIN in :
                 k \in DOMAIN out <=> \A j \in SameService(k) : j = k \/ StrLess(k, j)
           /\ egress.errs = << >> <=> DOMAIN out = DOMAIN in
           /\ egress.errs = << >> => out = in
           /\ Len(egress.errs) = Cardinality(DOMAIN in \ DOMAIN out)
           /\ \A c \in cases :
                 in = c.in => out = c.out /\ (egress.errs = << >>) = c.valid

\* the call of the test's third case: two rules of one domain with different
\* ports, the one with the larger key rejected
C21_Witness ==
    /\ egress.pc = "returned"
    /\ \E c \in cases :
          /\ c.name = "a conflict in a domain, different ports"
          /\ egress.egressRules = c.in
          /\ egress.filteredEgressRules = c.out
    /\ Len(egress.errs) = 1

-----------------------------------------------------------------------------
(* The registry driven by service events, one event at a time *)

SpecHandlersSeq == InitReg({ 1 }, FALSE) /\ [][NextHandlers]_vars

\* the mappings stored: none while there is no registry
StoredMap == IF reg = 0 THEN << >> ELSE heap[reg].Map

\* every event has been processed
Quiescent == \A p \in DOMAIN rprocs : rprocs[p].fn = "idle" /\ rprocs[p].then = << >>

\* C22 (registry driven by service events): after any sequence of
\* K8SServiceAdded, K8SServiceDeleted and K8SServiceUpdated events processed one
\* at a time on an empty registry, every stored mapping maps a service account
\* to itself, and the mapped accounts are exactly those whose most recent add or
\* delete was an add, an update counting as a delete of the old service then an
\* add of the new one; services without the annotation change nothing.
C22_EventDriven ==
    /\ [] /\ \A a \in DOMAIN StoredMap : StoredMap[a] = a
          /\ Len(heap) <= 1
          /\ Quiescent =>
                DOMAIN StoredMap
                   = { a \in DOMAIN lastEvent : lastEvent[a] = "K8SServiceAdded" }
    /\ [][ (\E p \in DOMAIN rprocs : rprocs[p].fn = "idle" /\ rprocs'[p].fn = "idle")
              => (reg' = reg /\ heap' = heap /\ lastEvent' = lastEvent) ]_vars

\* after K8SServiceAdded for account a and K8SServiceUpdated from a service of
\* account a to one of account b: only b is mapped
C22_Witness ==
    /\ Quiescent
    /\ calledOps = 2
    /\ lastEvent = [ a \in { "a", "b" } |->
                       IF a = "a" THEN "K8SServiceDeleted" ELSE "K8SServiceAdded" ]
    /\ StoredMap = [ a \in { "b" } |-> "b" ]

====
